---- MODULE Spec2Model ----
(***************************************************************************)
(* LossyFlowAccumulator (landlab/components/flow_accum/                    *)
(* lossy_flow_accumulator.py): the loss-function adapter built by          *)
(* __init__, and accumulate_flow / run_one_step, which build the delta/D   *)
(* donor structure and the downstream-to-upstream stack from the receiver  *)
(* fields and then accumulate drainage area and lossy discharge.           *)
(*                                                                         *)
(* Node arrays are functions over 0..n-1 (numpy indexing); the stack and   *)
(* the work queue are sequences.  Areas and discharges are floats in the   *)
(* program; here they are counted in ticks of 1/Unit, Unit a power of two  *)
(* large enough that every halving the model performs is exact, as it is   *)
(* in binary floating point.  Proportions are counted in halves.           *)
(***************************************************************************)
EXTENDS Integers, Sequences, FiniteSets, TLC

\* ------------------------------------------------------------------------
\* Bounds of the model
\* ------------------------------------------------------------------------
\* number of nodes of the generic grids
MaxN == 3

\* receiver slots per node of a route-to-many flow director
K == 2

\* accumulate_flow calls on one component
MaxCalls == 2

\* ------------------------------------------------------------------------
\* Program constants
\* ------------------------------------------------------------------------
BAD_INDEX_VALUE == -1

RECURSIVE Pow(_, _)
Pow(b, e) == IF e = 0 THEN 1 ELSE b * Pow(b, e - 1)

\* proportions are numerators over PDen: 0, 1/2, 1
PDen == Pow(2, 1)

\* number of nodes of the grid of the class docstring's first example
\* (the open row of the 3 x 5 raster)
DocN == 5

\* ticks per unit of area or discharge: one halving by a proportion and one
\* by a loss function on each of the at most MaxN - 1 edges of a flow path
\* of a generic grid (the docstring grid is route-to-one: 4 edges, one
\* halving each)
Unit == Pow(4, MaxN - 1)

NodeIds(n) == 0 .. (n - 1)

\* ------------------------------------------------------------------------
\* flow_accum_bw: donor topology, route-to-one
\* ------------------------------------------------------------------------
\* nd[r[j]]++ for all j
_make_number_of_donors_array(r) ==
    [i \in DOMAIN r |-> Cardinality({j \in DOMAIN r : r[j] = i})]

RECURSIVE PrefixSum(_, _)
PrefixSum(nd, i) == IF i = 0 THEN 0 ELSE PrefixSum(nd, i - 1) + nd[i - 1]

\* delta[0] = 0; delta[i+1] = delta[i] + nd[i]
_make_delta_array(nd) ==
    [i \in 0 .. Cardinality(DOMAIN nd) |-> PrefixSum(nd, i)]

\* for each donor j in increasing id order: D[w[r[j]]] = j; w[r[j]]++,
\* w a scratch copy of delta
RECURSIVE PlaceDonors(_, _, _, _)
PlaceDonors(r, w, D, j) ==
    IF j \notin DOMAIN r THEN D
    ELSE PlaceDonors(r, [w EXCEPT ![r[j]] = @ + 1],
                     [D EXCEPT ![w[r[j]]] = j], j + 1)

_make_array_of_donors(r, delta) ==
    PlaceDonors(r, delta, [e \in DOMAIN r |-> BAD_INDEX_VALUE], 0)

\* ------------------------------------------------------------------------
\* flow_accum_to_n: donor topology, route-to-many
\* ------------------------------------------------------------------------
\* the (donor, slot) pairs that are real transfers: proportion > 0
ActiveSlots(p, j) == {k \in DOMAIN p[j] : p[j][k] > 0}

_make_number_of_donors_array_to_n(r, p) ==
    [i \in DOMAIN r |->
        Cardinality({e \in (DOMAIN r) \X (1 .. K) :
                        e[2] \in ActiveSlots(p, e[1]) /\ r[e[1]][e[2]] = i})]

_make_delta_array_to_n(nd) == _make_delta_array(nd)

\* same bucket rule, ordered by donor id, then slot index
RECURSIVE PlaceDonorsToN(_, _, _, _, _, _)
PlaceDonorsToN(r, p, w, D, j, k) ==
    IF j \notin DOMAIN r THEN D
    ELSE IF k > K THEN PlaceDonorsToN(r, p, w, D, j + 1, 1)
    ELSE IF p[j][k] > 0
         THEN PlaceDonorsToN(r, p, [w EXCEPT ![r[j][k]] = @ + 1],
                             [D EXCEPT ![w[r[j][k]]] = j], j, k + 1)
         ELSE PlaceDonorsToN(r, p, w, D, j, k + 1)

_make_array_of_donors_to_n(r, p, delta) ==
    PlaceDonorsToN(r, p, delta,
                   [e \in 0 .. (delta[Cardinality(DOMAIN r)] - 1) |-> BAD_INDEX_VALUE],
                   0, 1)

\* ------------------------------------------------------------------------
\* Traversal-order builder
\* ------------------------------------------------------------------------
\* how the builder was written to push onto its pending queue: at the back
\* (breadth-first) or at the front (depth-first); the same in every run
VARIABLE push_order

PushOrders == {"append", "prepend"}

\* the faulty seeding that takes the terminal nodes from the highest id down
RECURSIVE Descending(_)
Descending(S) ==
    IF S = {} THEN <<>>
    ELSE LET m == CHOOSE x \in S : \A y \in S : x >= y
         IN  <<m>> \o Descending(S \ {m})

RECURSIVE Ascending(_)
Ascending(S) ==
    IF S = {} THEN <<>>
    ELSE LET m == CHOOSE x \in S : \A y \in S : x <= y
         IN  <<m>> \o Ascending(S \ {m})

\* push the donors D[e .. hi-1] of node l, in block order; a donor is
\* pushed once every receiver it has has been emitted (need[m] of them)
RECURSIVE PushDonors(_, _, _, _, _, _, _)
PushDonors(D, e, hi, l, need, queue, visits) ==
    IF e >= hi THEN [queue |-> queue, visits |-> visits]
    ELSE LET m == D[e]
             v == [visits EXCEPT ![m] = @ + 1]
         IN  IF m = l THEN PushDonors(D, e + 1, hi, l, need, queue, visits)
             ELSE PushDonors(D, e + 1, hi, l, need,
                             IF v[m] # need[m] THEN queue
                             ELSE IF push_order = "append" THEN Append(queue, m)
                             ELSE <<m>> \o queue,
                             v)

\* repeatedly pop a node, append it to the stack, push its donors
RECURSIVE construct__stack(_, _, _, _, _, _)
construct__stack(delta, D, need, queue, s, visits) ==
    IF queue = <<>> THEN s
    ELSE LET l == Head(queue)
             nx == PushDonors(D, delta[l], delta[l + 1], l, need,
                              Tail(queue), visits)
         IN  construct__stack(delta, D, need, nx.queue, Append(s, l), nx.visits)

\* the stack of a receiver array; a stack shorter than the node count is the
\* topology defect the builder reports
make_ordered_node_array(r) ==
    LET nd == _make_number_of_donors_array(r)
        delta == _make_delta_array(nd)
        D == _make_array_of_donors(r, delta)
        baselevel_nodes == {i \in DOMAIN r : r[i] = i}
    IN  construct__stack(delta, D, [i \in DOMAIN r |-> 1],
                         Ascending(baselevel_nodes), <<>>,
                         [i \in DOMAIN r |-> 0])

make_ordered_node_array_to_n(r, p) ==
    LET nd == _make_number_of_donors_array_to_n(r, p)
        delta == _make_delta_array_to_n(nd)
        D == _make_array_of_donors_to_n(r, p, delta)
        baselevel_nodes == {i \in DOMAIN r : r[i][1] = i}
    IN  construct__stack(delta, D,
                         [i \in DOMAIN r |-> Cardinality(ActiveSlots(p, i))],
                         Ascending(baselevel_nodes), <<>>,
                         [i \in DOMAIN r |-> 0])

\* ------------------------------------------------------------------------
\* Loss functions a caller may supply, and the adapter of __init__
\* ------------------------------------------------------------------------
\* A value a Python callable hands back: a number tagged with its type,
\* or an exception.
PyFloat(v) == [ty |-> "float", v |-> v]
PyInt(v) == [ty |-> "int", v |-> v]
Raises == [ty |-> "raise", v |-> 0]

\* the float a discharge of Qw ticks is truncated to by int()
Trunc(Qw) == (Qw \div Unit) * Unit

\* the callables: params is the declared parameter count, body what the
\* callable computes.  "half" is mylossfunction and "term" mylossfunction2
\* of the class docstring.
LossFunctions ==
    { [params |-> 0, body |-> "const"],
      [params |-> 1, body |-> "half"],
      [params |-> 1, body |-> "int"],
      [params |-> 1, body |-> "raise"],
      [params |-> 2, body |-> "node"],
      [params |-> 2, body |-> "int"],
      [params |-> 3, body |-> "link"],
      [params |-> 3, body |-> "int"],
      [params |-> 4, body |-> "term"],
      [params |-> 4, body |-> "int"],
      [params |-> 5, body |-> "half"] }

\* grid.at_node['mylossterm'] of the docstring: 1. at one node, 0. elsewhere
mylossterm(nodeID) == IF nodeID = 1 THEN 1 ELSE 0

\* loss_function(Qw[, nodeID[, linkID[, grid]]]) of the caller; Qw in ticks
CallLossFunction(fn, Qw, nodeID, linkID, grid) ==
    CASE fn.body = "half" -> PyFloat(Qw \div 2)
      [] fn.body = "node" -> PyFloat(IF nodeID = 0 THEN 0 ELSE Qw)
      [] fn.body = "link" -> PyFloat(IF linkID = 0 THEN Qw \div 2 ELSE Qw)
      [] fn.body = "term" -> PyFloat((1 - mylossterm(nodeID)) * Qw)
      [] fn.body = "int" -> PyInt(Trunc(Qw))
      [] fn.body = "const" -> PyFloat(Unit)
      [] fn.body = "raise" -> Raises

\* float(x)
float(x) == PyFloat(x.v)

\* the placeholder call of __init__: loss_function(1.), (1., 0), (1., 0, 0)
Probe(fn) == CallLossFunction(fn, Unit, 0, 0, <<>>)

\* what __init__ leaves in self._lossfunc and how it ends
NoLossFunction == [params |-> -1, body |-> "none"]

\* the faulty constructor that probes a 4-parameter callable as well
InitOutcome_probing_every_arity(fn) ==
    IF fn = NoLossFunction THEN "ok"
    ELSE IF fn.params \in {1, 2, 3, 4}
         THEN IF Probe(fn).ty = "raise" THEN "raised by loss_function"
              ELSE IF Probe(fn).ty # "float" THEN "TypeError"
              ELSE "ok"
    ELSE "ValueError"

InitOutcome(fn) ==
    IF fn = NoLossFunction THEN "ok"
    ELSE IF fn.params \in {1, 2, 3}
         THEN IF Probe(fn).ty = "raise" THEN "raised by loss_function"
              ELSE IF Probe(fn).ty # "float" THEN "TypeError"
              ELSE "ok"
    ELSE IF fn.params = 4 THEN "ok"
    ELSE "ValueError"

\* the faulty adapter whose default, taken when no loss function is given,
\* hands on nothing
lossfunc_default_drops_all(fn, Qw, nodeID, linkID, grid) ==
    IF fn = NoLossFunction THEN 0
    ELSE IF fn.params = 1 THEN float(CallLossFunction(fn, Qw, 0, 0, <<>>)).v
    ELSE IF fn.params = 2 THEN float(CallLossFunction(fn, Qw, nodeID, 0, <<>>)).v
    ELSE IF fn.params = 3 THEN float(CallLossFunction(fn, Qw, nodeID, linkID, <<>>)).v
    ELSE CallLossFunction(fn, Qw, nodeID, linkID, grid).v

\* self._lossfunc(Qw, nodeID, linkID, grid), in ticks
lossfunc(fn, Qw, nodeID, linkID, grid) ==
    IF fn = NoLossFunction THEN float(PyFloat(Qw)).v
    ELSE IF fn.params = 1 THEN float(CallLossFunction(fn, Qw, 0, 0, <<>>)).v
    ELSE IF fn.params = 2 THEN float(CallLossFunction(fn, Qw, nodeID, 0, <<>>)).v
    ELSE IF fn.params = 3 THEN float(CallLossFunction(fn, Qw, nodeID, linkID, <<>>)).v
    ELSE CallLossFunction(fn, Qw, nodeID, linkID, grid).v

\* ------------------------------------------------------------------------
\* Accumulation passes
\* ------------------------------------------------------------------------
\* one node of the route-to-one pass: st = [a, q, loss] so far
DonateToOne(donor, r, l, fn, grid, st) ==
    LET recvr == r[donor]
        discharge_remaining == lossfunc(fn, st.q[donor], donor, l[donor], grid)
    IN  IF donor = recvr THEN st
        ELSE [a |-> [st.a EXCEPT ![recvr] = @ + st.a[donor]],
              q |-> [st.q EXCEPT ![recvr] = @ + discharge_remaining],
              loss |-> [st.loss EXCEPT ![donor] = st.q[donor] - discharge_remaining]]

\* the stack is downstream-to-upstream: walk it from its last entry to
\* its first
RECURSIVE WalkToOne(_, _, _, _, _, _, _)
WalkToOne(i, s, r, l, fn, grid, st) ==
    IF i = 0 THEN st
    ELSE WalkToOne(i - 1, s, r, l, fn, grid, DonateToOne(s[i], r, l, fn, grid, st))

\* Q[i] = I[i] * A_cell[i], a[i] = A_cell[i]; the loss is written into the
\* grid's surface_water__discharge_loss field
find_drainage_area_and_discharge_lossy(s, r, l, fn, grid, node_cell_area, runoff) ==
    WalkToOne(Len(s), s, r, l, fn, grid,
              [a |-> node_cell_area,
               q |-> [i \in DOMAIN r |-> node_cell_area[i] * runoff[i]],
               loss |-> grid.surface_water__discharge_loss])

\* one slot after the other of one node of the route-to-many pass; out is
\* what the node's earlier slots handed on
RECURSIVE DonateToN(_, _, _, _, _, _, _, _, _)
DonateToN(donor, v, r, l, p, fn, grid, st, out) ==
    IF v > K
    THEN IF r[donor][1] = donor THEN st
         ELSE [st EXCEPT !.loss = [@ EXCEPT ![donor] = st.q[donor] - out]]
    ELSE LET recvr == r[donor][v]
             proportion == p[donor][v]
             discharge_head == (proportion * st.q[donor]) \div PDen
             discharge_remaining == lossfunc(fn, discharge_head, donor, l[donor][v], grid)
         IN  IF proportion > 0 /\ donor # recvr
             THEN DonateToN(donor, v + 1, r, l, p, fn, grid,
                      [a |-> [st.a EXCEPT ![recvr] = @ + (proportion * st.a[donor]) \div PDen],
                       q |-> [st.q EXCEPT ![recvr] = @ + discharge_remaining],
                       loss |-> st.loss],
                      out + discharge_remaining)
             ELSE DonateToN(donor, v + 1, r, l, p, fn, grid, st, out)

RECURSIVE WalkToN(_, _, _, _, _, _, _, _)
WalkToN(i, s, r, l, p, fn, grid, st) ==
    IF i = 0 THEN st
    ELSE WalkToN(i - 1, s, r, l, p, fn, grid,
                 DonateToN(s[i], 1, r, l, p, fn, grid, st, 0))

find_drainage_area_and_discharge_to_n_lossy(s, r, l, p, fn, grid, node_cell_area, runoff) ==
    WalkToN(Len(s), s, r, l, p, fn, grid,
            [a |-> node_cell_area,
             q |-> [i \in DOMAIN r |-> node_cell_area[i] * runoff[i]],
             loss |-> grid.surface_water__discharge_loss])

\* ------------------------------------------------------------------------
\* The grid and the collaborators: flow director, depression finder
\* ------------------------------------------------------------------------
\* The model's grids are rings of n nodes: node i is joined to i+1 by link i
\* (mod n).  A perimeter node has no cell: cell area 0.
NextNode(i, n) == (i + 1) % n
PrevNode(i, n) == (i + n - 1) % n
LinkTo(i, j, n) == IF j = NextNode(i, n) THEN i ELSE j

number_of_links(n) == n

\* the last k nodes are perimeter nodes
CellAreas(n, k) == [i \in NodeIds(n) |-> IF i < n - k THEN Unit ELSE 0]

Pad(row, fill) == row \o [k \in 1 .. (K - Len(row)) |-> fill]

\* what a route-to-one director writes for node i: itself, or a neighbour
RowToOne(i, n, c) ==
    CASE c = 0 -> [r |-> i, l |-> BAD_INDEX_VALUE]
      [] c = 1 -> [r |-> NextNode(i, n), l |-> LinkTo(i, NextNode(i, n), n)]
      [] c = 2 -> [r |-> PrevNode(i, n), l |-> LinkTo(i, PrevNode(i, n), n)]

\* what a route-to-many director writes for node i: itself (with weight 1
\* or 0), one neighbour, or half to each neighbour
RowToN(i, n, c) ==
    CASE c = 0 -> [r |-> Pad(<<i>>, BAD_INDEX_VALUE), p |-> Pad(<<PDen>>, 0),
                   l |-> Pad(<<>>, BAD_INDEX_VALUE)]
      [] c = 1 -> [r |-> Pad(<<i>>, BAD_INDEX_VALUE), p |-> Pad(<<>>, 0),
                   l |-> Pad(<<>>, BAD_INDEX_VALUE)]
      [] c = 2 -> [r |-> Pad(<<NextNode(i, n)>>, BAD_INDEX_VALUE), p |-> Pad(<<PDen>>, 0),
                   l |-> Pad(<<LinkTo(i, NextNode(i, n), n)>>, BAD_INDEX_VALUE)]
      [] c = 3 -> [r |-> Pad(<<PrevNode(i, n)>>, BAD_INDEX_VALUE), p |-> Pad(<<PDen>>, 0),
                   l |-> Pad(<<LinkTo(i, PrevNode(i, n), n)>>, BAD_INDEX_VALUE)]
      [] c = 4 -> [r |-> Pad(<<NextNode(i, n), PrevNode(i, n)>>, BAD_INDEX_VALUE),
                   p |-> Pad(<<PDen \div 2, PDen \div 2>>, 0),
                   l |-> Pad(<<LinkTo(i, NextNode(i, n), n), LinkTo(i, PrevNode(i, n), n)>>,
                             BAD_INDEX_VALUE)]

\* no node has a receiver: what a director finds on a flat surface
NoReceivers(mode, n) ==
    IF mode = "one"
    THEN [r |-> [i \in NodeIds(n) |-> RowToOne(i, n, 0).r],
          p |-> <<>>,
          l |-> [i \in NodeIds(n) |-> RowToOne(i, n, 0).l]]
    ELSE [r |-> [i \in NodeIds(n) |-> RowToN(i, n, 0).r],
          p |-> [i \in NodeIds(n) |-> RowToN(i, n, 0).p],
          l |-> [i \in NodeIds(n) |-> RowToN(i, n, 0).l]]

\* every node but the last drains to its next node: the docstring's row
LineReceivers(n) ==
    [r |-> [i \in NodeIds(n) |-> RowToOne(i, n, IF i = n - 1 THEN 0 ELSE 1).r],
     p |-> <<>>,
     l |-> [i \in NodeIds(n) |-> RowToOne(i, n, IF i = n - 1 THEN 0 ELSE 1).l]]

\* the receiver, proportion and link fields a director run can leave when
\* the fields were f: the surface has changed at one node at most
DirectorOutputs(mode, n, f) ==
    IF mode = "one"
    THEN { [r |-> [f.r EXCEPT ![i] = RowToOne(i, n, c).r],
            p |-> f.p,
            l |-> [f.l EXCEPT ![i] = RowToOne(i, n, c).l]] :
           i \in NodeIds(n), c \in 0 .. 2 }
    ELSE { [r |-> [f.r EXCEPT ![i] = RowToN(i, n, c).r],
            p |-> [f.p EXCEPT ![i] = RowToN(i, n, c).p],
            l |-> [f.l EXCEPT ![i] = RowToN(i, n, c).l]] :
           i \in NodeIds(n), c \in 0 .. 4 }

\* map_depressions reroutes a pit (a node that is its own receiver) to its
\* next node, or finds nothing to reroute
DepressionOutputs(f, n) ==
    {f} \cup
    { [r |-> [f.r EXCEPT ![i] = RowToOne(i, n, 1).r],
       p |-> f.p,
       l |-> [f.l EXCEPT ![i] = RowToOne(i, n, 1).l]] :
      i \in {j \in NodeIds(n) : f.r[j] = j} }

\* water__unit_flux_in: uniform, none on the last node, or double on the
\* first node
Runoffs(n) ==
    { [i \in NodeIds(n) |-> 1],
      [i \in NodeIds(n) |-> IF i = n - 1 THEN 0 ELSE 1],
      [i \in NodeIds(n) |-> IF i = 0 THEN 2 ELSE 1] }

\* entries of the stored flow__data_structure_D field
DFieldSize(mode, n) ==
    IF mode = "one" THEN number_of_links(n) ELSE number_of_links(n) * 2

\* ------------------------------------------------------------------------
\* State
\* ------------------------------------------------------------------------
VARIABLES
    phase,                          \* "new", "failed", "idle", "done", "raised"
    number_of_nodes,
    node_cell_area,
    to_n_receivers,                 \* flow_director.to_n_receivers
    depression_finder_provided,
    _is_raster,
    loss_function,                  \* the loss_function argument of __init__
    _lossfunc,
    init_error,
    water__unit_flux_in,
    flow__receiver_node,
    flow__receiver_proportions,
    flow__link_to_receiver_node,
    flow__data_structure_delta,
    flow__data_structure_D,
    flow__upstream_node_order,
    drainage_area,
    surface_water__discharge,
    surface_water__discharge_loss,
    result,                         \* what the last accumulate_flow returned or raised
    last_update_flow_director,      \* the argument of the last accumulate_flow call
    calls                           \* accumulate_flow calls so far

gridvars == <<number_of_nodes, node_cell_area, to_n_receivers,
              depression_finder_provided, _is_raster, push_order>>
dirvars == <<flow__receiver_node, flow__receiver_proportions,
             flow__link_to_receiver_node>>
outvars == <<flow__data_structure_delta, flow__data_structure_D,
             flow__upstream_node_order, drainage_area,
             surface_water__discharge, surface_water__discharge_loss>>
vars == <<phase, gridvars, loss_function, _lossfunc, init_error, water__unit_flux_in,
          dirvars, outvars, result, last_update_flow_director, calls>>

Unset == [params |-> -2, body |-> "unset"]
NoResult == [outcome |-> "none", unvisited |-> 0, a |-> <<>>, q |-> <<>>]

\* the grids: the generic rings, route-to-one or route-to-many, with no
\* perimeter node or one, on a flat surface; and the open row of the
\* docstring's 3 x 5 raster (route-to-one, last node a perimeter node)
Grids ==
    { [n |-> MaxN, area |-> CellAreas(MaxN, k), mode |-> m, finder |-> d, raster |-> x,
       receivers |-> NoReceivers(m, MaxN)] :
        k \in 0 .. 1, m \in {"one", "many"}, d \in BOOLEAN, x \in BOOLEAN }
    \cup
    { [n |-> DocN, area |-> CellAreas(DocN, 1), mode |-> "one", finder |-> FALSE,
       raster |-> TRUE, receivers |-> LineReceivers(DocN)] }

\* The grid, its director and the base FlowAccumulator exist; __init__ has
\* still to look at loss_function.  The output fields hold their initial
\* values.
Init ==
    /\ phase = "new"
    /\ push_order \in PushOrders
    /\ \E g \in Grids :
         /\ number_of_nodes = g.n
         /\ node_cell_area = g.area
         /\ to_n_receivers = g.mode
         /\ depression_finder_provided = (g.finder /\ g.mode = "one")
         /\ _is_raster = (g.raster \/ g.mode = "one")
         /\ flow__receiver_node = g.receivers.r
         /\ flow__receiver_proportions = g.receivers.p
         /\ flow__link_to_receiver_node = g.receivers.l
         /\ water__unit_flux_in = [i \in NodeIds(g.n) |-> 1]
         /\ flow__data_structure_delta = [i \in NodeIds(g.n) |-> BAD_INDEX_VALUE]
         /\ flow__data_structure_D =
              [e \in 0 .. (DFieldSize(g.mode, g.n) - 1) |-> BAD_INDEX_VALUE]
         /\ flow__upstream_node_order = [k \in 1 .. g.n |-> BAD_INDEX_VALUE]
         /\ drainage_area = [i \in NodeIds(g.n) |-> 0]
         /\ surface_water__discharge = [i \in NodeIds(g.n) |-> 0]
         /\ surface_water__discharge_loss = [i \in NodeIds(g.n) |-> 0]
    /\ loss_function = Unset
    /\ _lossfunc = Unset
    /\ init_error = "none"
    /\ result = NoResult
    /\ last_update_flow_director = TRUE
    /\ calls = 0

\* ------------------------------------------------------------------------
\* LossyFlowAccumulator.__init__
\* ------------------------------------------------------------------------
__init__(loss_function_arg) ==
    /\ phase = "new"
    /\ loss_function' = loss_function_arg
    /\ init_error' = InitOutcome(loss_function_arg)
    /\ IF InitOutcome(loss_function_arg) = "ok"
       THEN /\ phase' = "idle"
            /\ _lossfunc' = loss_function_arg
            /\ surface_water__discharge_loss' = [i \in NodeIds(number_of_nodes) |-> 0]
       ELSE /\ phase' = "failed"
            /\ UNCHANGED <<_lossfunc, surface_water__discharge_loss>>
    /\ UNCHANGED <<gridvars, water__unit_flux_in, dirvars,
                   flow__data_structure_delta, flow__data_structure_D,
                   flow__upstream_node_order, drainage_area,
                   surface_water__discharge, result, last_update_flow_director,
                   calls>>

\* ------------------------------------------------------------------------
\* LossyFlowAccumulator.accumulate_flow
\* ------------------------------------------------------------------------
\* flow__data_structure_D[: len(D)] = D
StoreD(field, D) ==
    [e \in DOMAIN field |-> IF e \in DOMAIN D THEN D[e] ELSE field[e]]

\* tempD = BAD_INDEX_VALUE * ones(number_of_links * 2); tempD[: len(D)] = D;
\* flow__data_structure_D[:] = tempD.reshape((number_of_links, 2))
StoreDRaster(field, D) ==
    [e \in DOMAIN field |-> IF e \in DOMAIN D THEN D[e] ELSE BAD_INDEX_VALUE]

\* step 2 of the route-to-one branch: nd, delta, D and the stack of the
\* receiver array r
build_to_one(r) ==
    LET nd == _make_number_of_donors_array(r)
        delta == _make_delta_array(nd)
    IN  [delta |-> delta,
         D |-> _make_array_of_donors(r, delta),
         s |-> make_ordered_node_array(r)]

\* the faulty call that leaves node_cell_area at its default of 1.0
pass_to_one_default_area(s, f) ==
    find_drainage_area_and_discharge_lossy(
        s, f.r, f.l, _lossfunc,
        [surface_water__discharge_loss |-> surface_water__discharge_loss],
        [i \in NodeIds(number_of_nodes) |-> Unit], water__unit_flux_in)

\* step 4 of the route-to-one branch: (a, q) and the loss field
pass_to_one(s, f) ==
    find_drainage_area_and_discharge_lossy(
        s, f.r, f.l, _lossfunc,
        [surface_water__discharge_loss |-> surface_water__discharge_loss],
        node_cell_area, water__unit_flux_in)

\* the faulty store that writes the stack upstream-to-downstream
store_to_one_reversed(built, res) ==
    [delta |-> [i \in NodeIds(number_of_nodes) |-> built.delta[i + 1]],
     D |-> StoreD(flow__data_structure_D, built.D),
     s |-> [k \in 1..Len(built.s) |-> built.s[Len(built.s) + 1 - k]],
     a |-> res.a,
     q |-> res.q,
     loss |-> res.loss]

\* the faulty store that writes the discharge into drainage_area as well
store_to_one_discharge_as_area(built, res) ==
    [delta |-> [i \in NodeIds(number_of_nodes) |-> built.delta[i + 1]],
     D |-> StoreD(flow__data_structure_D, built.D),
     s |-> built.s,
     a |-> res.q,
     q |-> res.q,
     loss |-> res.loss]

\* what the route-to-one branch leaves in the grid's fields
store_to_one(built, res) ==
    [delta |-> [i \in NodeIds(number_of_nodes) |-> built.delta[i + 1]],
     D |-> StoreD(flow__data_structure_D, built.D),
     s |-> built.s,
     a |-> res.a,
     q |-> res.q,
     loss |-> res.loss]

\* the same three for the route-to-many branch
build_to_n(r, p) ==
    LET nd == _make_number_of_donors_array_to_n(r, p)
        delta == _make_delta_array_to_n(nd)
    IN  [delta |-> delta,
         D |-> _make_array_of_donors_to_n(r, p, delta),
         s |-> make_ordered_node_array_to_n(r, p)]

\* the faulty call that passes runoff and node_cell_area in each other's
\* place
pass_to_n_swapped_arguments(s, f) ==
    find_drainage_area_and_discharge_to_n_lossy(
        s, f.r, f.l, f.p, _lossfunc,
        [surface_water__discharge_loss |-> surface_water__discharge_loss],
        water__unit_flux_in, node_cell_area)

pass_to_n(s, f) ==
    find_drainage_area_and_discharge_to_n_lossy(
        s, f.r, f.l, f.p, _lossfunc,
        [surface_water__discharge_loss |-> surface_water__discharge_loss],
        node_cell_area, water__unit_flux_in)

\* the faulty store that swaps a and q
store_to_n_swapped(built, res) ==
    [delta |-> [i \in NodeIds(number_of_nodes) |-> built.delta[i + 1]],
     D |-> IF _is_raster THEN StoreDRaster(flow__data_structure_D, built.D)
           ELSE StoreD(flow__data_structure_D, built.D),
     s |-> built.s,
     a |-> res.q,
     q |-> res.a,
     loss |-> res.loss]

\* the faulty store that keeps delta[:-1] where delta[1:] belongs
store_to_n_delta_from_zero(built, res) ==
    [delta |-> [i \in NodeIds(number_of_nodes) |-> built.delta[i]],
     D |-> IF _is_raster THEN StoreDRaster(flow__data_structure_D, built.D)
           ELSE StoreD(flow__data_structure_D, built.D),
     s |-> built.s,
     a |-> res.a,
     q |-> res.q,
     loss |-> res.loss]

store_to_n(built, res) ==
    [delta |-> [i \in NodeIds(number_of_nodes) |-> built.delta[i + 1]],
     D |-> IF _is_raster THEN StoreDRaster(flow__data_structure_D, built.D)
           ELSE StoreD(flow__data_structure_D, built.D),
     s |-> built.s,
     a |-> res.a,
     q |-> res.q,
     loss |-> res.loss]

CurrentReceivers ==
    [r |-> flow__receiver_node, p |-> flow__receiver_proportions,
     l |-> flow__link_to_receiver_node]

\* step 1: flow_director.run_one_step() if update_flow_director
DirectorRuns(update_flow_director) ==
    IF update_flow_director
    THEN DirectorOutputs(to_n_receivers, number_of_nodes, CurrentReceivers)
    ELSE {CurrentReceivers}

\* step 3: depression_finder.map_depressions(), route-to-one only
DepressionRuns(f) ==
    IF to_n_receivers = "one" /\ depression_finder_provided
    THEN DepressionOutputs(f, number_of_nodes)
    ELSE {f}

\* the stack builder reports a traversal that left nodes out; nothing has
\* been stored yet
RaiseTopologyError(unvisited) ==
    /\ phase' = "raised"
    /\ result' = [outcome |-> "TopologyError", unvisited |-> unvisited,
                  a |-> <<>>, q |-> <<>>]
    /\ UNCHANGED outvars

StoreAndReturn(out) ==
    /\ phase' = "done"
    /\ flow__data_structure_delta' = out.delta
    /\ flow__data_structure_D' = out.D
    /\ flow__upstream_node_order' = out.s
    /\ drainage_area' = out.a
    /\ surface_water__discharge' = out.q
    /\ surface_water__discharge_loss' = out.loss
    /\ result' = [outcome |-> "ok", unvisited |-> 0, a |-> out.a, q |-> out.q]

\* the faulty call that swallows the stack builder's error and goes on
\* with the nodes the traversal did visit
accumulate_flow_unchecked(update_flow_director) ==
    /\ phase \in {"idle", "done", "raised"}
    /\ calls < MaxCalls
    /\ calls' = calls + 1
    /\ last_update_flow_director' = update_flow_director
    /\ \E d \in DirectorRuns(update_flow_director) :
       \E f \in DepressionRuns(d) :
       \E built \in {IF to_n_receivers = "one" THEN build_to_one(f.r)
                     ELSE build_to_n(f.r, f.p)} :
         /\ flow__receiver_node' = f.r
         /\ flow__receiver_proportions' = f.p
         /\ flow__link_to_receiver_node' = f.l
         /\ \E out \in {IF to_n_receivers = "one"
                         THEN store_to_one(built, pass_to_one(built.s, f))
                         ELSE store_to_n(built, pass_to_n(built.s, f))} :
                StoreAndReturn(out)
    /\ UNCHANGED <<gridvars, loss_function, _lossfunc, init_error, water__unit_flux_in>>

\* the faulty call that maps depressions last, after the accumulation, as
\* the docstring's step 4 has it
accumulate_flow_finder_last(update_flow_director) ==
    /\ phase \in {"idle", "done", "raised"}
    /\ calls < MaxCalls
    /\ calls' = calls + 1
    /\ last_update_flow_director' = update_flow_director
    /\ \E d \in DirectorRuns(update_flow_director) :
       \E f \in DepressionRuns(d) :
       \E built \in {IF to_n_receivers = "one" THEN build_to_one(d.r)
                     ELSE build_to_n(d.r, d.p)} :
         /\ flow__receiver_node' = f.r
         /\ flow__receiver_proportions' = f.p
         /\ flow__link_to_receiver_node' = f.l
         /\ IF Len(built.s) < number_of_nodes
            THEN RaiseTopologyError(number_of_nodes - Len(built.s))
            ELSE \E out \in {IF to_n_receivers = "one"
                             THEN store_to_one(built, pass_to_one(built.s, d))
                             ELSE store_to_n(built, pass_to_n(built.s, d))} :
                   StoreAndReturn(out)
    /\ UNCHANGED <<gridvars, loss_function, _lossfunc, init_error, water__unit_flux_in>>

accumulate_flow(update_flow_director) ==
    /\ phase \in {"idle", "done", "raised"}
    /\ calls < MaxCalls
    /\ calls' = calls + 1
    /\ last_update_flow_director' = update_flow_director
    /\ \E d \in DirectorRuns(update_flow_director) :
       \E f \in DepressionRuns(d) :
       \E built \in {IF to_n_receivers = "one" THEN build_to_one(f.r)
                     ELSE build_to_n(f.r, f.p)} :
         /\ flow__receiver_node' = f.r
         /\ flow__receiver_proportions' = f.p
         /\ flow__link_to_receiver_node' = f.l
         /\ IF Len(built.s) < number_of_nodes
            THEN RaiseTopologyError(number_of_nodes - Len(built.s))
            ELSE \E out \in {IF to_n_receivers = "one"
                             THEN store_to_one(built, pass_to_one(built.s, f))
                             ELSE store_to_n(built, pass_to_n(built.s, f))} :
                   StoreAndReturn(out)
    /\ UNCHANGED <<gridvars, loss_function, _lossfunc, init_error, water__unit_flux_in>>

run_one_step == accumulate_flow(TRUE)

\* the caller updates the runoff field between calls
set_runoff(runoff) ==
    /\ phase \in {"idle", "done", "raised"}
    /\ runoff # water__unit_flux_in
    /\ water__unit_flux_in' = runoff
    /\ phase' = "idle"
    /\ UNCHANGED <<gridvars, loss_function, _lossfunc, init_error, dirvars, outvars,
                   result, last_update_flow_director, calls>>

Next ==
    \/ \E fn \in LossFunctions \cup {NoLossFunction} : __init__(fn)
    \/ \E u \in BOOLEAN : accumulate_flow(u)
    \/ run_one_step
    \/ \E runoff \in Runoffs(number_of_nodes) : set_runoff(runoff)

Spec == Init /\ [][Next]_vars

\* ------------------------------------------------------------------------
\* The receiver graph of the state, and what the properties speak of
\* ------------------------------------------------------------------------
Nodes == NodeIds(number_of_nodes)

\* the receiver fields are those the last accumulate_flow call worked on
Called == phase \in {"done", "raised"}

\* the last call returned: the output fields are its results
Done == phase = "done"

IsTerminal(i) ==
    IF to_n_receivers = "one" THEN flow__receiver_node[i] = i
    ELSE flow__receiver_node[i][1] = i

\* the slots of node i that carry flow away from it
OutSlots(i) ==
    IF to_n_receivers = "one"
    THEN IF flow__receiver_node[i] = i THEN {} ELSE {1}
    ELSE {k \in ActiveSlots(flow__receiver_proportions, i) :
             flow__receiver_node[i][k] # i}

ReceiverAt(i, k) ==
    IF to_n_receivers = "one" THEN flow__receiver_node[i]
    ELSE flow__receiver_node[i][k]

LinkAt(i, k) ==
    IF to_n_receivers = "one" THEN flow__link_to_receiver_node[i]
    ELSE flow__link_to_receiver_node[i][k]

ProportionAt(i, k) ==
    IF to_n_receivers = "one" THEN PDen ELSE flow__receiver_proportions[i][k]

\* the non-self-loop edges donor -> receiver, one per slot
Edges == {e \in Nodes \X (1 .. K) : e[2] \in OutSlots(e[1])}
ReceiversOf(i) == {ReceiverAt(i, k) : k \in OutSlots(i)}
DonorEdges(i) == {e \in Edges : ReceiverAt(e[1], e[2]) = i}

RECURSIVE Reach(_, _)
Reach(S, k) ==
    IF k = 0 THEN S
    ELSE Reach(S \cup UNION {ReceiversOf(i) : i \in S}, k - 1)

\* the nodes downstream of i
Downstream(i) == Reach(ReceiversOf(i), number_of_nodes)

Acyclic == \A i \in Nodes : i \notin Downstream(i)

RECURSIVE SumOver(_, _)
SumOver(S, g) ==
    IF S = {} THEN 0
    ELSE LET x == CHOOSE y \in S : TRUE
         IN  g[x] + SumOver(S \ {x}, g)

StackIndex(i) ==
    CHOOSE k \in DOMAIN flow__upstream_node_order : flow__upstream_node_order[k] = i

StackIsPermutation ==
    /\ Len(flow__upstream_node_order) = number_of_nodes
    /\ {flow__upstream_node_order[k] : k \in DOMAIN flow__upstream_node_order} = Nodes

\* what the adapter handed on from node i through slot k, given the
\* discharge the node ended with
QOut(i, k) ==
    lossfunc(_lossfunc, (ProportionAt(i, k) * surface_water__discharge[i]) \div PDen,
             i, LinkAt(i, k), <<>>)

\* ------------------------------------------------------------------------
\* C1
\* ------------------------------------------------------------------------
\* C1 as stated: after a call on an acyclic receiver graph the stored stack
\* is a permutation of the node ids in which every donor comes strictly
\* before its receiver.
C1_DonorBeforeReceiver ==
    (Called /\ Acyclic) =>
        /\ Done
        /\ StackIsPermutation
        /\ \A e \in Edges : StackIndex(e[1]) < StackIndex(ReceiverAt(e[1], e[2]))

\* C1 amended: after a call on an acyclic receiver graph (route-to-one or
\* route-to-many) the stored stack is a permutation of all node ids in
\* which, for every non-self-loop edge donor -> receiver, the receiver
\* comes strictly before the donor (downstream to upstream).
C1_ReceiverBeforeDonor ==
    (Called /\ Acyclic) =>
        /\ Done
        /\ StackIsPermutation
        /\ \A e \in Edges : StackIndex(ReceiverAt(e[1], e[2])) < StackIndex(e[1])

\* a node with two receivers, one of which drains into the other, has been
\* ordered
C1_Witness ==
    /\ Done
    /\ to_n_receivers = "many"
    /\ \E i \in Nodes : \E j \in ReceiversOf(i) :
          /\ Cardinality(ReceiversOf(i)) = 2
          /\ ReceiversOf(i) \cap ReceiversOf(j) # {}

\* ------------------------------------------------------------------------
\* C2
\* ------------------------------------------------------------------------
\* C2: with no loss function, after a call on an acyclic receiver graph
\* the discharge summed over the terminal nodes equals the local input
\* I[i] * A_cell[i] summed over all nodes.
C2_ConservationWithoutLoss ==
    (Called /\ Acyclic /\ _lossfunc = NoLossFunction) =>
        /\ Done
        /\ SumOver({i \in Nodes : IsTerminal(i)}, surface_water__discharge)
             = SumOver(Nodes, [i \in Nodes |-> water__unit_flux_in[i] * node_cell_area[i]])

\* flux has been split over two receivers and has reached a terminal node
C2_Witness ==
    /\ Done
    /\ _lossfunc = NoLossFunction
    /\ \E i \in Nodes :
          /\ Cardinality(OutSlots(i)) = 2
          /\ surface_water__discharge[i] > 0
    /\ \E i \in Nodes :
          /\ IsTerminal(i)
          /\ surface_water__discharge[i] > water__unit_flux_in[i] * node_cell_area[i]

WithoutLoss ==
    IF to_n_receivers = "one"
    THEN find_drainage_area_and_discharge_lossy(
             flow__upstream_node_order, flow__receiver_node,
             flow__link_to_receiver_node, NoLossFunction,
             [surface_water__discharge_loss |-> surface_water__discharge_loss],
             node_cell_area, water__unit_flux_in)
    ELSE find_drainage_area_and_discharge_to_n_lossy(
             flow__upstream_node_order, flow__receiver_node,
             flow__link_to_receiver_node, flow__receiver_proportions, NoLossFunction,
             [surface_water__discharge_loss |-> surface_water__discharge_loss],
             node_cell_area, water__unit_flux_in)

\* C4: the drainage area a call leaves is the one a call with no loss
\* function leaves on the same receivers, proportions and cell areas,
\* whatever loss function the component was built with.
C4_AreaIndependentOfLoss ==
    Done => drainage_area = WithoutLoss.a

\* a loss function has changed the discharge and left the area alone
C4_Witness ==
    /\ Done
    /\ _lossfunc # NoLossFunction
    /\ surface_water__discharge # WithoutLoss.q
    /\ drainage_area = WithoutLoss.a
    /\ \E i \in Nodes : drainage_area[i] > node_cell_area[i]

\* ------------------------------------------------------------------------
\* C5
\* ------------------------------------------------------------------------
\* the area and the discharge the donors of node i handed to it
AreaIn(i) ==
    SumOver(DonorEdges(i),
            [e \in DonorEdges(i) |->
                (ProportionAt(e[1], e[2]) * drainage_area[e[1]]) \div PDen])

DischargeIn(i) ==
    SumOver(DonorEdges(i), [e \in DonorEdges(i) |-> QOut(e[1], e[2])])

\* node i adds nothing of its own to the area and the discharge it holds
\* and hands on
AddsNothing(i) ==
    /\ drainage_area[i] = AreaIn(i)
    /\ surface_water__discharge[i] = DischargeIn(i)

\* C5 as stated: after a call every node with cell area 0 has drainage
\* area 0 and adds nothing to the area and discharge downstream of it.
C5_PerimeterAreaZero ==
    Done =>
        \A i \in Nodes :
            node_cell_area[i] = 0 => (drainage_area[i] = 0 /\ AddsNothing(i))

\* C5 amended: after a call every node with cell area 0 holds exactly the
\* drainage area and the discharge its donors handed to it (0 when it has
\* no donors): it adds nothing of its own to any drainage area or
\* discharge, wherever it is in the receiver graph.
C5_PerimeterAddsNothing ==
    Done => \A i \in Nodes : node_cell_area[i] = 0 => AddsNothing(i)

\* a perimeter node that drains a node with a cell and drains on itself
C5_Witness ==
    /\ Done
    /\ \E i \in Nodes :
          /\ node_cell_area[i] = 0
          /\ drainage_area[i] > 0
          /\ surface_water__discharge[i] > 0
          /\ ~IsTerminal(i)

\* ------------------------------------------------------------------------
\* C6
\* ------------------------------------------------------------------------
\* C6 as stated: a[i] >= A_cell[i], with equality iff i has no donors.
C6_EqualityIffNoDonors ==
    Done =>
        \A i \in Nodes :
            /\ drainage_area[i] >= node_cell_area[i]
            /\ (drainage_area[i] = node_cell_area[i]) <=> (DonorEdges(i) = {})

\* C6 amended: after a call a[i] >= A_cell[i] for every node i, and
\* a[i] == A_cell[i] if and only if no donor of i has a drainage area
\* above 0 (in particular when i has no donors).
C6_AreaMonotone ==
    Done =>
        \A i \in Nodes :
            /\ drainage_area[i] >= node_cell_area[i]
            /\ (drainage_area[i] = node_cell_area[i])
                 <=> (\A e \in DonorEdges(i) : drainage_area[e[1]] = 0)

\* a node with a cell whose only donor is a perimeter node, and a node that
\* gained area from a donor
C6_Witness ==
    /\ Done
    /\ \E i \in Nodes :
          /\ DonorEdges(i) # {}
          /\ node_cell_area[i] > 0
          /\ drainage_area[i] = node_cell_area[i]
    /\ \E i \in Nodes : drainage_area[i] > node_cell_area[i]

\* ------------------------------------------------------------------------
\* C7
\* ------------------------------------------------------------------------
\* the nodes on a cycle of non-self-loop edges or draining into one
CycleBound ==
    {i \in Nodes : \E j \in Downstream(i) \cup {i} : j \in Downstream(j)}

\* nodes a and b drain only into each other and nothing else is caught
TwoCycle(a, b) ==
    /\ a # b
    /\ ReceiversOf(a) = {b}
    /\ ReceiversOf(b) = {a}
    /\ CycleBound = {a, b}

ReturnsFloat(fn) == fn.body \notin {"int", "raise"}

\* the callables construction accepts: 1 to 4 parameters, a float from the probe
Acceptable(fn) ==
    /\ fn.params \in {1, 2, 3, 4}
    /\ fn.params \in {1, 2, 3} => ReturnsFloat(fn)

\* construction was given a callable and has ended
Constructed == phase # "new" /\ loss_function # NoLossFunction

\* C8 as stated: construction succeeds iff the callable declares 1 to 4
\* parameters and, for 1 to 3, the probe call returns a float; every other
\* callable fails with InvalidLossFunction before any accumulation, and a
\* 4-parameter callable is accepted with no probe.
C8_InvalidLossFunction ==
    Constructed =>
        /\ (phase # "failed") <=> Acceptable(loss_function)
        /\ phase = "failed" =>
              (init_error = "InvalidLossFunction" /\ calls = 0 /\ result = NoResult)
        /\ loss_function.params = 4 => phase # "failed"

\* C8 amended: construction succeeds iff the callable declares 1 to 4
\* parameters and, for 1 to 3, the probe call returns a float; every other
\* callable fails at construction, before any accumulation can run: with
\* ValueError for 0 or more than 4 parameters, with TypeError for a probe
\* result that is not a float, and with the probe call's own exception when
\* that call raises; a 4-parameter callable is accepted with no probe.
C8_ConstructionOutcome ==
    Constructed =>
        /\ (phase # "failed") <=> Acceptable(loss_function)
        /\ (phase # "failed") <=> (init_error = "ok")
        /\ (phase # "failed") <=> (_lossfunc = loss_function)
        /\ phase = "failed" =>
              /\ calls = 0
              /\ result = NoResult
              /\ _lossfunc = Unset
              /\ init_error =
                   (IF loss_function.params \notin {1, 2, 3, 4} THEN "ValueError"
                    ELSE IF loss_function.body = "raise" THEN "raised by loss_function"
                    ELSE "TypeError")
        /\ loss_function.params = 4 => phase # "failed"

\* a 2-parameter callable that hands back an int was refused
C8_Witness ==
    /\ phase = "failed"
    /\ loss_function.params = 2
    /\ loss_function.body = "int"
    /\ init_error = "TypeError"

\* ------------------------------------------------------------------------
\* C9
\* ------------------------------------------------------------------------
\* what one call on a freshly constructed component leaves, on the state's
\* receivers, proportions, cell areas, runoff and loss function
FreshLoss == [surface_water__discharge_loss |-> [i \in Nodes |-> 0]]

FreshCall ==
    IF to_n_receivers = "one"
    THEN LET s == make_ordered_node_array(flow__receiver_node)
         IN  [s |-> s,
              res |-> find_drainage_area_and_discharge_lossy(
                          s, flow__receiver_node, flow__link_to_receiver_node,
                          _lossfunc, FreshLoss, node_cell_area, water__unit_flux_in)]
    ELSE LET s == make_ordered_node_array_to_n(flow__receiver_node,
                                               flow__receiver_proportions)
         IN  [s |-> s,
              res |-> find_drainage_area_and_discharge_to_n_lossy(
                          s, flow__receiver_node, flow__link_to_receiver_node,
                          flow__receiver_proportions, _lossfunc, FreshLoss,
                          node_cell_area, water__unit_flux_in)]

\* C9: after any sequence of calls the stack, discharge, drainage area and
\* loss the last call left are those of a single call with the same inputs
\* on a freshly constructed component.
C9_NoCarriedState ==
    Done =>
        /\ flow__upstream_node_order = FreshCall.s
        /\ surface_water__discharge = FreshCall.res.q
        /\ drainage_area = FreshCall.res.a
        /\ surface_water__discharge_loss = FreshCall.res.loss

\* ------------------------------------------------------------------------
\* C10
\* ------------------------------------------------------------------------
\* the docstring's row: discharge, area and loss of the 5-node line with
\* f(Q) = 0.5 Q, in ticks
DocExample ==
    (/\ Done
     /\ number_of_nodes = DocN
     /\ flow__receiver_node = LineReceivers(DocN).r
     /\ _lossfunc = [params |-> 1, body |-> "half"]
     /\ water__unit_flux_in = [i \in NodeIds(DocN) |-> IF i = DocN - 1 THEN 0 ELSE 1])
    =>
    \A i \in NodeIds(DocN) :
        /\ 16 * surface_water__discharge[i] = Unit * <<16, 24, 28, 30, 15>>[i + 1]
        /\ drainage_area[i] = Unit * <<1, 2, 3, 4, 4>>[i + 1]
        /\ 16 * surface_water__discharge_loss[i] = Unit * <<8, 12, 14, 15, 0>>[i + 1]

\* C10: after a route-to-one call Q[i] = I[i] * A_cell[i] + the sum over
\* the donors j of i of f(Q[j], j, link[j], ctx), a[i] = A_cell[i] + the sum
\* over the donors of a[j], L[i] = Q[i] - f(Q[i], ...) for a non-terminal
\* node and L[i] = 0 for a terminal one; the 5-node line gives
\* Q = [1, 1.5, 1.75, 1.875, 0.9375], a = [1, 2, 3, 4, 4],
\* L = [0.5, 0.75, 0.875, 0.9375, 0].
C10_ReferenceRecurrence ==
    (Done /\ to_n_receivers = "one") =>
        /\ \A i \in Nodes :
              /\ surface_water__discharge[i]
                   = water__unit_flux_in[i] * node_cell_area[i] + DischargeIn(i)
              /\ drainage_area[i] = node_cell_area[i] + AreaIn(i)
              /\ surface_water__discharge_loss[i]
                   = (IF IsTerminal(i) THEN 0
                      ELSE surface_water__discharge[i] - QOut(i, 1))
        /\ DocExample

\* ------------------------------------------------------------------------
\* C11
\* ------------------------------------------------------------------------
\* the stack the builder makes of the state's receivers, stored or not
BuiltStack ==
    IF to_n_receivers = "one"
    THEN make_ordered_node_array(flow__receiver_node)
    ELSE make_ordered_node_array_to_n(flow__receiver_node,
                                      flow__receiver_proportions)

Terminals == {i \in Nodes : IsTerminal(i)}

\* no node twice; every terminal node in, the terminals among themselves in
\* ascending id order and the lowest first of all; a non-terminal node only
\* after every receiver it has; all the nodes when the graph is acyclic
BuildIsOrdered(s) ==
    /\ \A j, k \in DOMAIN s : s[j] = s[k] => j = k
    /\ Terminals \subseteq {s[k] : k \in DOMAIN s}
    /\ \A j, k \in DOMAIN s :
          (s[j] \in Terminals /\ s[k] \in Terminals /\ j < k) => s[j] < s[k]
    /\ Terminals # {} => (s[1] \in Terminals /\ \A i \in Terminals : s[1] <= i)
    /\ \A k \in DOMAIN s :
          s[k] \notin Terminals =>
              \A x \in ReceiversOf(s[k]) : \E j \in 1 .. (k - 1) : s[j] = x
    /\ Acyclic => Len(s) = number_of_nodes
    /\ Done => flow__upstream_node_order = s

\* every terminal node before every non-terminal node
TerminalsLead(s) ==
    \A j, k \in DOMAIN s :
        (s[j] \in Terminals /\ s[k] \notin Terminals) => j < k

\* C11 as stated: the build seeds its queue with the terminal nodes in
\* ascending id order and appends a non-terminal node only after its
\* receiver, so the terminal nodes come first and every node is appended
\* exactly once; on an acyclic graph the build ends with all N nodes.
C11_TerminalsFirst ==
    Called => (BuildIsOrdered(BuiltStack) /\ TerminalsLead(BuiltStack))

\* C11 amended: the build seeds its queue with the terminal nodes in
\* ascending id order and appends a non-terminal node only after its
\* receivers, so the stack starts with the lowest terminal node, the
\* terminal nodes keep their ascending order, every node is appended
\* exactly once, and on an acyclic graph the build ends with all N nodes;
\* all terminal nodes precede all non-terminal nodes when donors are pushed
\* at the back of the queue, not when they are pushed at its front.
C11_SeededBuild ==
    Called =>
        /\ BuildIsOrdered(BuiltStack)
        /\ push_order = "append" => TerminalsLead(BuiltStack)

\* a depth-first build put the donor of the first terminal node before the
\* second terminal node
C11_Witness ==
    /\ Done
    /\ push_order = "prepend"
    /\ Cardinality(Terminals) >= 2
    /\ ~TerminalsLead(flow__upstream_node_order)

\* ------------------------------------------------------------------------
\* C12
\* ------------------------------------------------------------------------
\* the edges of the state's receiver fields, self-loops included: every node
\* once in route-to-one, every slot with a proportion above 0 in
\* route-to-many
AllEdges ==
    IF to_n_receivers = "one" THEN Nodes \X {1}
    ELSE {e \in Nodes \X (1 .. K) :
             e[2] \in ActiveSlots(flow__receiver_proportions, e[1])}

EdgesInto(i) == {e \in AllEdges : ReceiverAt(e[1], e[2]) = i}

\* delta and D as the builders make them of the state's receiver fields
BuiltDelta ==
    IF to_n_receivers = "one"
    THEN _make_delta_array(_make_number_of_donors_array(flow__receiver_node))
    ELSE _make_delta_array_to_n(
             _make_number_of_donors_array_to_n(flow__receiver_node,
                                               flow__receiver_proportions))

BuiltD ==
    IF to_n_receivers = "one"
    THEN _make_array_of_donors(flow__receiver_node, BuiltDelta)
    ELSE _make_array_of_donors_to_n(flow__receiver_node,
                                    flow__receiver_proportions, BuiltDelta)

\* delta as the grid holds it: the field is delta[1:], delta[0] is always 0
StoredDelta ==
    [i \in 0 .. number_of_nodes |->
        IF i = 0 THEN 0 ELSE flow__data_structure_delta[i - 1]]

\* the first delta[N] entries of the grid's D field
StoredD ==
    [e \in 0 .. (StoredDelta[number_of_nodes] - 1) |-> flow__data_structure_D[e]]

\* delta and D are a stable bucketed adjacency list of the state's edges
IsBucketedAdjacency(delta, D) ==
    /\ DOMAIN delta = 0 .. number_of_nodes
    /\ delta[0] = 0
    /\ \A i \in Nodes :
          /\ delta[i] <= delta[i + 1]
          /\ delta[i + 1] - delta[i] = Cardinality(EdgesInto(i))
    /\ delta[number_of_nodes] = Cardinality(AllEdges)
    /\ to_n_receivers = "one" => delta[number_of_nodes] = number_of_nodes
    /\ DOMAIN D = 0 .. (Cardinality(AllEdges) - 1)
    /\ \A i \in Nodes :
          LET block == delta[i] .. (delta[i + 1] - 1)
          IN  /\ \A j \in Nodes :
                    Cardinality({e \in block : D[e] = j})
                      = Cardinality({x \in EdgesInto(i) : x[1] = j})
              /\ \A e1, e2 \in block : e1 < e2 => D[e1] <= D[e2]

\* C12: the delta/D structure built from the receiver array is a stable
\* bucketed adjacency list: delta[0] = 0, delta never decreases,
\* delta[i+1] - delta[i] is the number of edges into node i, delta[N] is the
\* edge count E (N in route-to-one, self-loops included; the number of slots
\* with a proportion above 0 in route-to-many), and each block
\* D[delta[i]:delta[i+1]] holds exactly the donors of i in ascending donor
\* id (then slot) order; a call that returns has stored this structure.
C12_BucketedAdjacency ==
    Called =>
        /\ IsBucketedAdjacency(BuiltDelta, BuiltD)
        /\ Done => IsBucketedAdjacency(StoredDelta, StoredD)

\* a route-to-many call stored a structure with a block of two donors, an
\* empty block and fewer edges than slots
C12_Witness ==
    /\ Done
    /\ to_n_receivers = "many"
    /\ \E i \in Nodes :
          Cardinality({e[1] : e \in EdgesInto(i)}) = 2
    /\ \E i \in Nodes : EdgesInto(i) = {}
    /\ Cardinality(AllEdges) < number_of_nodes * K
    /\ Cardinality(AllEdges) > number_of_nodes

\* ------------------------------------------------------------------------
\* C13
\* ------------------------------------------------------------------------
\* the receiver fields a call ended with are those the director left, run
\* first and only if update_flow_director was TRUE, and the depression
\* finder after it, if there is one
DirectedThenMapped ==
    \E d \in DirectorRuns(last_update_flow_director') :
    \E f \in DepressionRuns(d) :
       /\ flow__receiver_node' = f.r
       /\ flow__receiver_proportions' = f.p
       /\ flow__link_to_receiver_node' = f.l

\* (a, q) as the accumulation pass makes them of a stack and the state's
\* receiver fields
PassOver(s) ==
    IF to_n_receivers = "one" THEN pass_to_one(s, CurrentReceivers)
    ELSE pass_to_n(s, CurrentReceivers)

\* the stored delta, D and stack are those of the state's receiver fields,
\* and the stored and returned (a, q) are the pass over that stack and
\* these receiver fields
OneReceiverState ==
    /\ StoredDelta = BuiltDelta
    /\ StoredD = BuiltD
    /\ \E s \in {BuiltStack} :
          /\ flow__upstream_node_order = s
          /\ \E res \in {PassOver(s)} :
                /\ drainage_area = res.a
                /\ surface_water__discharge = res.q
                /\ result.a = res.a
                /\ result.q = res.q

DFieldIsCurrent ==
    /\ \A e \in DOMAIN BuiltD : flow__data_structure_D[e] = BuiltD[e]
    /\ \A e \in DOMAIN flow__data_structure_D :
          e \notin DOMAIN BuiltD => flow__data_structure_D[e] = BAD_INDEX_VALUE

\* where the field is rewritten whole, or len(D) never changes, nothing is
\* left over: route-to-one, and route-to-many on a raster
DFieldIsCurrentWhereCleared ==
    (Done /\ (to_n_receivers = "one" \/ _is_raster)) => DFieldIsCurrent

\* C14: after any sequence of accumulate_flow calls the grid field
\* flow__data_structure_D holds the D array of the most recent call in its
\* first len(D) entries and no donor id of an earlier call in the remaining
\* entries, in route-to-one and in route-to-many on raster and non-raster
\* grids, also when len(D) shrinks between calls.
C14_NoStaleDonors ==
    Done => DFieldIsCurrent

====
